---- MODULE Spec2Model ----
(***************************************************************************)
(* Kalabox engine module (lib/engine.js): three memoized readiness facts   *)
(* (isProviderInstalled, isProviderUp, engineHasBeenInit), the             *)
(* verification chain that establishes them, and the public operations     *)
(* that run the chain before delegating to the provider or to the backend  *)
(* engine.  JavaScript runs every callback to completion, so each action   *)
(* below is one synchronous run: a public call up to its first             *)
(* asynchronous provider/backend call, or one provider/backend callback up *)
(* to the next asynchronous call or to the caller's callback.              *)
(***************************************************************************)
EXTENDS Naturals, Sequences, FiniteSets, TLC

\* Bounds of the model.
NProc == 2      \* invocations that can be in flight at the same time
MaxCalls == 3   \* invocations issued in a run where each waits for the last
MaxBurst == 2   \* invocations issued in a run where some overlap

Procs == 1..NProc

\* ---------------------------------------------------------------- values

\* JavaScript truthiness of the values that flow through the callbacks.
Truthy(v) == v \notin {"null", "undefined", "false"}

ProviderNames == {"virtualbox", "boot2docker"}
EngineNames == {"docker", "rkt"}

\* What a provider query hands to its callback: <<err, value>>.
Yes == <<"null", "true">>    \* no error, the check is positive
No == <<"null", "false">>    \* no error, the check is negative
QueryFailed == <<"EQUERY", "undefined">>
BoolAnswers == {Yes, No, QueryFailed}
ConfigOk == <<"null", "cfg">>
ConfigAnswers == {ConfigOk, QueryFailed}
\* What a delegated provider/backend operation hands to the caller's callback.
DelegateAnswers == {<<"null", "data">>, <<"EBACKEND", "undefined">>}

\* How a provider answers each query: any way, or consistently the good way
\* (installed, running, configuration available).
FreeProfiles ==
  [name : ProviderNames, isInstalled : {BoolAnswers}, isUp : {BoolAnswers},
   engineConfig : {ConfigAnswers}]
GoodProfiles ==
  [name : ProviderNames, isInstalled : {{Yes}}, isUp : {{Yes}},
   engineConfig : {{ConfigOk}}]

UpDownOps == {"up", "down"}
GatedOps == {"list", "inspect", "create", "start", "stop", "remove", "build"}

VARIABLES
  engine,               \* the backend handle: "null" or the selected engine
  isProviderInstalled,  \* cached fact
  isProviderUp,         \* cached fact
  engineHasBeenInit,    \* cached fact
  provider,             \* the provider: its name and how it answers
  inv,                  \* the invocations: one record per slot
  calls,                \* how often each provider query / backend init ran
  ncalls,               \* invocations issued so far
  requested             \* globalConfig.engine of the latest init call

vars == <<engine, isProviderInstalled, isProviderUp, engineHasBeenInit,
          provider, inv, calls, ncalls, requested>>

\* An invocation: the operation and its argument, the backend handle it found
\* when it was issued, where it waits, the provider queries it issued and their
\* answers, the functions it delegated to, what the delegated function
\* produced, and what the caller's callback received.
Idle == [op |-> "none", arg |-> "none", handle |-> "none", pc |-> "idle",
         queries |-> <<>>, answers |-> <<>>, delegated |-> <<>>,
         backend |-> <<>>, result |-> <<>>]

NewInv(op, arg) ==
  [Idle EXCEPT !.op = op, !.arg = arg, !.handle = engine, !.pc = "running"]

Pending(r) == r.pc \in {"isInstalled", "isUp", "engineConfig", "liveIsUp", "delegate"}

\* The module's variables as one value, threaded through a synchronous run.
St == [engine |-> engine, installed |-> isProviderInstalled,
       up |-> isProviderUp, init |-> engineHasBeenInit, calls |-> calls]

Bump(st, q) == [st EXCEPT !.calls[q] = @ + 1]

\* The run suspends in provider query q.
Ask(st, r, q) ==
  [st |-> Bump(st, q),
   r |-> [r EXCEPT !.pc = q, !.queries = Append(@, q)]]

\* The caller's callback is invoked with (err, data).
Finish(st, r, err, data) ==
  [st |-> st, r |-> [r EXCEPT !.pc = "done", !.result = <<err, data>>]]

\* An exception leaves the run: the caller's callback is never invoked.
Throw(st, r) == [st |-> st, r |-> [r EXCEPT !.pc = "thrown"]]

\* An error message that leaves the provider's name out.
makeProviderError_NoName(msg) == "Provider " \o msg

makeProviderError(msg) == "Provider \"" \o provider.name \o "\" " \o msg

\* ------------------------------------------------------ the delegated call

\* A build that always builds, without looking at the image's build marker.
DelegateFns_AlwaysBuild(op, arg) ==
  CASE op \in UpDownOps -> <<"provider." \o op>>
    [] op = "inspect" -> <<"engine.get", "engine.inspect">>
    [] OTHER -> <<"engine." \o op>>

\* A dispatcher whose up and down go to the backend engine.
DelegateFns_BackendUpDown(op, arg) ==
  CASE op = "up" -> <<"engine.up">>
    [] op = "down" -> <<"engine.down">>
    [] op = "inspect" -> <<"engine.get", "engine.inspect">>
    [] op = "build" -> IF Truthy(arg) THEN <<"engine.build">> ELSE <<"engine.pull">>
    [] OTHER -> <<"engine." \o op>>

\* The provider/backend functions an operation calls once its gate succeeded.
DelegateFns(op, arg) ==
  CASE op = "up" -> <<"provider.up">>
    [] op = "down" -> <<"provider.down">>
    [] op = "list" -> <<"engine.list">>
    [] op = "inspect" -> <<"engine.get", "engine.inspect">>
    [] op = "create" -> <<"engine.create">>
    [] op = "start" -> <<"engine.start">>
    [] op = "stop" -> <<"engine.stop">>
    [] op = "remove" -> <<"engine.remove">>
    [] op = "build" -> IF Truthy(arg) THEN <<"engine.build">> ELSE <<"engine.pull">>

\* The operation hands its own callback to the delegated function.  A gated
\* operation dereferences the backend handle: with engine null that throws.
Delegate(st, r) ==
  IF r.op \in GatedOps /\ st.engine = "null"
  THEN Throw(st, r)
  ELSE [st |-> st,
        r |-> [r EXCEPT !.pc = "delegate",
                        !.delegated = @ \o DelegateFns(r.op, r.arg)]]

\* A dispatcher that wraps the delegated function's callback and replaces a
\* backend error by one of its own.
DelegateReturn_WrapError(st, r, ans) ==
  Finish(st, [r EXCEPT !.backend = ans],
         IF Truthy(ans[1]) THEN "Error: engine call failed" ELSE ans[1], ans[2])

\* A dispatcher that forgets "up" and "initialized" when down() succeeded.
DelegateReturn_DownResets(st, r, ans) ==
  Finish(IF r.op = "down" /\ ~Truthy(ans[1])
         THEN [st EXCEPT !.up = FALSE, !.init = FALSE] ELSE st,
         [r EXCEPT !.backend = ans], ans[1], ans[2])

\* The delegated function was handed the caller's own callback: what it
\* produces is what the caller receives.
DelegateReturn(st, r, ans) ==
  Finish(st, [r EXCEPT !.backend = ans], ans[1], ans[2])

\* A provider answer (err, value) that is positive: no error, truthy value.
Positive(ans) == ~Truthy(ans[1]) /\ Truthy(ans[2])

\* An isUp that remembers a positive answer in the gate's cache.
OnLiveIsUp_Caches(st, r, ans) ==
  Finish(IF Positive(ans) THEN [st EXCEPT !.up = TRUE] ELSE st, r, ans[1], ans[2])

\* exports.isUp hands the caller's callback to provider.isUp.
OnLiveIsUp(st, r, ans) == Finish(st, r, ans[1], ans[2])

\* --------------------------------------------------- the readiness chain

\* A callback that goes on to the delegated call whatever the gate reported.
GateCallback_IgnoreErr(st, r, err) == Delegate(st, r)

\* A callback that drops a gate error instead of reporting it.
GateCallback_SwallowErr(st, r, err) ==
  IF Truthy(err) THEN [st |-> st, r |-> [r EXCEPT !.pc = "dropped"]]
  ELSE Delegate(st, r)

\* The callback every operation passes to its gate: function(err) {...}.
GateCallback(st, r, err) ==
  IF Truthy(err) THEN Finish(st, r, err, "undefined") ELSE Delegate(st, r)

\* A callback that initializes the backend before looking at err.
OnEngineConfig_InitFirst(st, r, ans) ==
  IF st.engine = "null" THEN Throw(st, r)
  ELSE GateCallback([Bump(st, "init") EXCEPT !.init = TRUE], r, ans[1])

\* A callback that initializes only when nobody has yet, and otherwise returns
\* without invoking the gate's callback.
OnEngineConfig_OnlyFirst(st, r, ans) ==
  IF Truthy(ans[1]) THEN GateCallback(st, r, ans[1])
  ELSE IF st.engine = "null" THEN Throw(st, r)
  ELSE IF st.init THEN [st |-> st, r |-> r]
  ELSE GateCallback([Bump(st, "init") EXCEPT !.init = TRUE], r, "null")

\* provider.engineConfig's callback inside verifyProviderIsReady.
\* A callback that skips engine.init when no backend is selected and still
\* records the backend as initialized.
OnEngineConfig_SkipInitOnNull(st, r, ans) ==
  IF Truthy(ans[1]) THEN GateCallback(st, r, ans[1])
  ELSE IF st.engine = "null" THEN GateCallback([st EXCEPT !.init = TRUE], r, "null")
  ELSE GateCallback([Bump(st, "init") EXCEPT !.init = TRUE], r, "null")

OnEngineConfig(st, r, ans) ==
  IF Truthy(ans[1]) THEN GateCallback(st, r, ans[1])
  ELSE IF st.engine = "null" THEN Throw(st, r)   \* engine.init on null
  ELSE GateCallback([Bump(st, "init") EXCEPT !.init = TRUE], r, "null")

\* A callback that takes the backend as initialized without asking.
UpCallback_NoInit(st, r, err) == GateCallback(st, r, err)

\* The callback verifyProviderIsReady passes to verifyProviderUp.
UpCallback(st, r, err) ==
  IF Truthy(err) THEN GateCallback(st, r, err)
  ELSE IF ~st.init THEN Ask(st, r, "engineConfig")
  ELSE GateCallback(st, r, "null")

\* A callback that stores the provider's answer instead of latching true.
OnIsUp_StoreAnswer(st, r, ans) ==
  IF Truthy(ans[1]) THEN UpCallback(st, r, ans[1])
  ELSE IF ~Truthy(ans[2])
       THEN UpCallback([st EXCEPT !.up = FALSE], r, makeProviderError("is NOT up!"))
       ELSE UpCallback([st EXCEPT !.up = TRUE], r, "null")

\* provider.isUp's callback inside verifyProviderUp.
\* A callback that asks the provider a second time before giving up.
OnIsUp_RetryOnce(st, r, ans) ==
  IF ~Positive(ans) /\ Len(r.answers) = Len(r.queries) /\ Len(r.queries) < 3
  THEN Ask(st, r, "isUp")
  ELSE IF Truthy(ans[1]) THEN UpCallback(st, r, ans[1])
  ELSE IF ~Truthy(ans[2]) THEN UpCallback(st, r, makeProviderError("is NOT up!"))
  ELSE UpCallback([st EXCEPT !.up = TRUE], r, "null")

OnIsUp(st, r, ans) ==
  IF Truthy(ans[1]) THEN UpCallback(st, r, ans[1])
  ELSE IF ~Truthy(ans[2]) THEN UpCallback(st, r, makeProviderError("is NOT up!"))
  ELSE UpCallback([st EXCEPT !.up = TRUE], r, "null")

\* A check that asks the provider without looking at the cached fact.
verifyProviderUp_NoCache(st, r) == Ask(st, r, "isUp")

verifyProviderUp(st, r) ==
  IF st.up THEN UpCallback(st, r, "null") ELSE Ask(st, r, "isUp")

\* A gate callback that goes on to the "is up" check whatever err is.
InstalledCallback_IgnoreErr(st, r, err) ==
  IF r.op \in UpDownOps THEN GateCallback(st, r, err) ELSE verifyProviderUp(st, r)

\* The callback passed to verifyProviderInstalled: by verifyProviderIsReady
\* for a gated operation, by up/down themselves.
InstalledCallback(st, r, err) ==
  IF r.op \in UpDownOps
  THEN GateCallback(st, r, err)
  ELSE IF Truthy(err) THEN GateCallback(st, r, err)
       ELSE verifyProviderUp(st, r)

\* A callback that caches "checked" rather than "installed".
OnIsInstalled_CacheFailure(st, r, ans) ==
  IF Truthy(ans[1]) THEN InstalledCallback(st, r, ans[1])
  ELSE IF ~Truthy(ans[2])
       THEN InstalledCallback([st EXCEPT !.installed = TRUE], r,
                              makeProviderError("is NOT installed!"))
       ELSE InstalledCallback([st EXCEPT !.installed = TRUE], r, "null")

\* provider.isInstalled's callback inside verifyProviderInstalled.
OnIsInstalled(st, r, ans) ==
  IF Truthy(ans[1]) THEN InstalledCallback(st, r, ans[1])
  ELSE IF ~Truthy(ans[2])
       THEN InstalledCallback(st, r, makeProviderError("is NOT installed!"))
       ELSE InstalledCallback([st EXCEPT !.installed = TRUE], r, "null")

\* A check that asks the provider without looking at the cached fact.
verifyProviderInstalled_NoCache(st, r) == Ask(st, r, "isInstalled")

verifyProviderInstalled(st, r) ==
  IF st.installed THEN InstalledCallback(st, r, "null")
  ELSE Ask(st, r, "isInstalled")

\* A gate that starts at the "is up" check, without the installation check.
verifyProviderIsReady_SkipInstalled(st, r) == verifyProviderUp(st, r)

verifyProviderIsReady(st, r) == verifyProviderInstalled(st, r)

\* ------------------------------------------------------------- the actions

Init ==
  /\ engine = "null"
  /\ isProviderInstalled = FALSE
  /\ isProviderUp = FALSE
  /\ engineHasBeenInit = FALSE
  /\ provider \in FreeProfiles \cup GoodProfiles
  /\ inv = [p \in Procs |-> Idle]
  /\ calls = [isInstalled |-> 0, isUp |-> 0, engineConfig |-> 0, init |-> 0]
  /\ ncalls = 0
  /\ requested = "none"

\* The outcome of a synchronous run becomes the new state.
Commit(p, res) ==
  /\ isProviderInstalled' = res.st.installed
  /\ isProviderUp' = res.st.up
  /\ engineHasBeenInit' = res.st.init
  /\ calls' = res.st.calls
  /\ inv' = [inv EXCEPT ![p] = res.r]

\* A slot whose invocation has returned (or that was never used) is free.
Free(p) == inv[p].pc \in {"idle", "done"}

\* No invocation was ever issued while another one was still pending, or
\* after one had ended in an exception.
Sequential == \A q \in Procs \ {1} : inv[q].pc = "idle"

\* A caller issues an operation: it takes the first free slot, so that slots
\* beyond the first are used only while an earlier invocation is pending.
CanCall(p) ==
  /\ Free(p)
  /\ \A q \in Procs : q < p => ~Free(q)
  /\ ncalls < (IF p = 1 /\ Sequential THEN MaxCalls ELSE MaxBurst)

Issue(p) ==
  /\ ncalls' = ncalls + 1
  /\ UNCHANGED <<engine, provider, requested>>

\* A provider query's callback of slot p runs with answer ans.
Answered(p, ans) == [inv[p] EXCEPT !.answers = Append(@, ans)]

\* An init that loads the backend named by every call.
init_LastCallWins(name) ==
  /\ engine' = name
  /\ requested' = name
  /\ UNCHANGED <<isProviderInstalled, isProviderUp, engineHasBeenInit,
                 provider, inv, calls, ncalls>>

init(name) ==
  /\ engine' = IF engine = "null" THEN name ELSE engine
  /\ requested' = name
  /\ UNCHANGED <<isProviderInstalled, isProviderUp, engineHasBeenInit,
                 provider, inv, calls, ncalls>>

isUp(p) ==
  /\ CanCall(p)
  /\ Commit(p, [st |-> St,
                r |-> [NewInv("isUp", "none") EXCEPT
                         !.pc = "liveIsUp", !.queries = <<"isUp">>]])
  /\ Issue(p)

up(p) ==
  /\ CanCall(p)
  /\ Commit(p, verifyProviderInstalled(St, NewInv("up", "none")))
  /\ Issue(p)

down(p) ==
  /\ CanCall(p)
  /\ Commit(p, verifyProviderInstalled(St, NewInv("down", "none")))
  /\ Issue(p)

list(p) ==
  /\ CanCall(p)
  /\ Commit(p, verifyProviderIsReady(St, NewInv("list", "none")))
  /\ Issue(p)

inspect(p) ==
  /\ CanCall(p)
  /\ Commit(p, verifyProviderIsReady(St, NewInv("inspect", "none")))
  /\ Issue(p)

create(p) ==
  /\ CanCall(p)
  /\ Commit(p, verifyProviderIsReady(St, NewInv("create", "none")))
  /\ Issue(p)

\* start(cid, startOptions, callback) or start(cid, callback): in the second
\* form startOptions becomes null.
start(p) ==
  /\ CanCall(p)
  /\ \E startOptions \in {"opts", "function"} :
       Commit(p, verifyProviderIsReady(St,
         NewInv("start", IF startOptions = "function" THEN "null" ELSE startOptions)))
  /\ Issue(p)

stop(p) ==
  /\ CanCall(p)
  /\ Commit(p, verifyProviderIsReady(St, NewInv("stop", "none")))
  /\ Issue(p)

remove(p) ==
  /\ CanCall(p)
  /\ Commit(p, verifyProviderIsReady(St, NewInv("remove", "none")))
  /\ Issue(p)

\* image.build is the marker: set (truthy) or absent.
build(p) ==
  /\ CanCall(p)
  /\ \E marker \in {"true", "undefined"} :
       Commit(p, verifyProviderIsReady(St, NewInv("build", marker)))
  /\ Issue(p)

IsInstalledCallback(p) ==
  /\ inv[p].pc = "isInstalled"
  /\ \E ans \in provider.isInstalled :
       Commit(p, OnIsInstalled(St, Answered(p, ans), ans))
  /\ UNCHANGED <<engine, provider, ncalls, requested>>

IsUpCallback(p) ==
  /\ inv[p].pc = "isUp"
  /\ \E ans \in provider.isUp : Commit(p, OnIsUp(St, Answered(p, ans), ans))
  /\ UNCHANGED <<engine, provider, ncalls, requested>>

EngineConfigCallback(p) ==
  /\ inv[p].pc = "engineConfig"
  /\ \E ans \in provider.engineConfig :
       Commit(p, OnEngineConfig(St, Answered(p, ans), ans))
  /\ UNCHANGED <<engine, provider, ncalls, requested>>

\* exports.isUp handed the caller's callback to provider.isUp.
LiveIsUpCallback(p) ==
  /\ inv[p].pc = "liveIsUp"
  /\ \E ans \in provider.isUp :
       Commit(p, OnLiveIsUp(St, Answered(p, ans), ans))
  /\ UNCHANGED <<engine, provider, ncalls, requested>>

\* The delegated function calls the caller's callback with its own outcome.
DelegateCallback(p) ==
  /\ inv[p].pc = "delegate"
  /\ \E ans \in DelegateAnswers : Commit(p, DelegateReturn(St, inv[p], ans))
  /\ UNCHANGED <<engine, provider, ncalls, requested>>

Next ==
  \/ \E name \in EngineNames : init(name)
  \/ \E p \in Procs : isUp(p)
  \/ \E p \in Procs : up(p)
  \/ \E p \in Procs : down(p)
  \/ \E p \in Procs : list(p)
  \/ \E p \in Procs : inspect(p)
  \/ \E p \in Procs : create(p)
  \/ \E p \in Procs : start(p)
  \/ \E p \in Procs : stop(p)
  \/ \E p \in Procs : remove(p)
  \/ \E p \in Procs : build(p)
  \/ \E p \in Procs : IsInstalledCallback(p)
  \/ \E p \in Procs : IsUpCallback(p)
  \/ \E p \in Procs : EngineConfigCallback(p)
  \/ \E p \in Procs : LiveIsUpCallback(p)
  \/ \E p \in Procs : DelegateCallback(p)

Spec == Init /\ [][Next]_vars

\* The dispatcher after init() has selected a backend, with a provider that
\* may answer anything.
InitSelected ==
  /\ engine \in EngineNames
  /\ requested = engine
  /\ isProviderInstalled = FALSE
  /\ isProviderUp = FALSE
  /\ engineHasBeenInit = FALSE
  /\ provider \in FreeProfiles
  /\ inv = [p \in Procs |-> Idle]
  /\ calls = [isInstalled |-> 0, isUp |-> 0, engineConfig |-> 0, init |-> 0]
  /\ ncalls = 0

\* The provider or the backend calls back the invocation in slot p.
Callbacks(p) ==
  \/ IsInstalledCallback(p)
  \/ IsUpCallback(p)
  \/ EngineConfigCallback(p)
  \/ LiveIsUpCallback(p)
  \/ DelegateCallback(p)

\* A backend is selected, and the provider and the backend invoke every
\* callback they were handed.
FairSpec ==
  InitSelected /\ [][Next]_vars /\ \A p \in Procs : WF_vars(Callbacks(p))

\* ------------------------------------------------------------ properties

AllFacts == isProviderInstalled /\ isProviderUp /\ engineHasBeenInit

\* C1: in every reachable state the cached facts are ordered: up implies
\* installed, and initialized implies up.
FactsOrdered ==
  /\ isProviderUp => isProviderInstalled
  /\ engineHasBeenInit => isProviderUp

\* C1 witness: up/down and a gated operation interleave, the gate has cached
\* installed and up and waits for the configuration.
FactsOrderedWitness ==
  /\ isProviderInstalled /\ isProviderUp /\ ~engineHasBeenInit
  /\ \E p, q \in Procs :
       /\ inv[p].pc = "engineConfig"
       /\ inv[q].op \in UpDownOps /\ inv[q].pc = "done"

\* C2: a cached fact that is true stays true in every step, whatever the step
\* is: a failing operation, a provider query error, a successful down().
FactsMonotonic ==
  [][/\ isProviderInstalled => isProviderInstalled'
     /\ isProviderUp => isProviderUp'
     /\ engineHasBeenInit => engineHasBeenInit']_vars

\* C2 witness: all facts are cached, a down() has succeeded and a gated
\* operation has failed.
FactsMonotonicWitness ==
  /\ AllFacts
  /\ \E p, q \in Procs :
       /\ inv[p].op = "down" /\ inv[p].pc = "done" /\ inv[p].result[1] = "null"
       /\ inv[q].op \in GatedOps /\ inv[q].pc = "done" /\ Truthy(inv[q].result[1])

\* C3: the step in which a gated operation issues its delegated backend call
\* ends in (or starts and ends in) a state where installed, up and initialized
\* are all cached, a backend is selected and it has consumed a configuration.
DelegatesOnlyWhenReady ==
  [][\A p \in Procs :
       (/\ inv'[p].pc = "delegate"
        /\ inv[p].pc # "delegate"
        /\ inv'[p].op \in GatedOps)
       => (/\ isProviderInstalled' /\ isProviderUp' /\ engineHasBeenInit'
           /\ engine # "null"
           /\ calls'.init >= 1)]_vars

\* C3 witness: inspect has issued get+inspect straight from the cache while
\* another gated operation that filled the cache has its call delegated.
DelegatesOnlyWhenReadyWitness ==
  \E p, q \in Procs :
    /\ inv[p].pc = "delegate" /\ inv[p].op = "inspect"
    /\ inv[p].delegated = <<"engine.get", "engine.inspect">>
    /\ inv[p].queries = <<"isUp">>
    /\ inv[q].op \in GatedOps /\ inv[q].pc = "delegate"
    /\ inv[q].queries = <<"isInstalled", "isUp", "engineConfig">>

GateOrder == <<"isInstalled", "isUp", "engineConfig">>

\* s is a subsequence of the gate's order, each query at most once.
InGateOrder(s) ==
  \E keep \in SUBSET (1..3) :
    /\ Len(s) = Cardinality(keep)
    /\ \A i \in 1..Len(s) :
         s[i] = GateOrder[CHOOSE k \in keep : Cardinality({j \in keep : j < k}) = i - 1]

\* C4: within one gated invocation the provider is queried in the order
\* isInstalled, isUp, engineConfig; a query is issued only after every earlier
\* query of the chain was answered positively; isUp is queried only with
\* installed confirmed and engineConfig only with installed and up confirmed;
\* and an invocation told "not installed" fails having queried nothing else.
GateQueriesInOrder ==
  \A p \in Procs :
    LET r == inv[p] IN
    r.op \in GatedOps =>
      /\ InGateOrder(r.queries)
      /\ Len(r.answers) <= Len(r.queries)
      /\ Len(r.queries) - Len(r.answers) <= 1
      /\ \A i \in 1..Len(r.answers) : i < Len(r.queries) => Positive(r.answers[i])
      /\ \A i \in 1..Len(r.queries) :
           /\ r.queries[i] = "isUp" => isProviderInstalled
           /\ r.queries[i] = "engineConfig" => isProviderInstalled /\ isProviderUp
      /\ (r.answers # <<>> /\ r.queries[1] = "isInstalled" /\ r.answers[1] = No)
           => /\ r.queries = <<"isInstalled">>
              /\ r.pc = "done"
              /\ Truthy(r.result[1])
              /\ r.delegated = <<>>

\* C4 witness: one gated invocation was told "not installed" and stopped after
\* its single query while another went through all three queries in order.
GateQueriesInOrderWitness ==
  \E p, q \in Procs :
    /\ inv[p].op \in GatedOps /\ inv[p].answers = <<No>>
    /\ inv[p].queries = <<"isInstalled">> /\ inv[p].pc = "done"
    /\ inv[q].op \in GatedOps /\ inv[q].queries = GateOrder
    /\ inv[q].pc = "delegate"

\* The provider consistently reports installed, running and a configuration,
\* and every invocation was issued after the previous one had completed.
GoodAndSequential == provider \in GoodProfiles /\ Sequential

AtMostOncePerFact == \A q \in DOMAIN calls : calls[q] <= 1

\* C6 amended: a readiness query is issued only while its fact is not cached:
\* no step issues the gate's isInstalled (isUp, engineConfig) query once
\* installed (up, initialized) is true; backend init runs only in the callback
\* of a successful engineConfig fetch, so never more often than the fetch.
QueriedOnlyWhileUncached ==
  /\ [](calls.init <= calls.engineConfig)
  /\ [][/\ isProviderInstalled => calls'.isInstalled = calls.isInstalled
        /\ isProviderUp => calls'.isUp = calls.isUp
        /\ engineHasBeenInit => calls'.engineConfig = calls.engineConfig
        /\ calls'.init # calls.init =>
             \E p \in Procs :
               /\ inv[p].pc = "engineConfig"
               /\ inv'[p].answers = Append(inv[p].answers, ConfigOk)]_vars

\* C6 witness: isInstalled was queried twice (a failed attempt, then a retry),
\* and a later gated call found the facts cached and queried nothing.
QueriedOnlyWhileUncachedWitness ==
  /\ calls.isInstalled = 2 /\ calls.isUp = 1 /\ calls.engineConfig = 1
  /\ AllFacts
  /\ inv[1].op \in GatedOps /\ inv[1].pc = "delegate" /\ inv[1].queries = <<>>

\* --- running operations one after another, each to the end of its gate ---

\* The answer of a provider that answers query q always the same way.
TheAnswer(q) == CHOOSE a \in provider[q] : TRUE

\* The gate of a suspended run, continued with the provider's answers until
\* it no longer waits for a provider query.
RECURSIVE Complete(_)
Complete(res) ==
  CASE res.r.pc = "isInstalled" ->
         Complete(OnIsInstalled(res.st, res.r, TheAnswer("isInstalled")))
    [] res.r.pc = "isUp" -> Complete(OnIsUp(res.st, res.r, TheAnswer("isUp")))
    [] res.r.pc = "engineConfig" ->
         Complete(OnEngineConfig(res.st, res.r, TheAnswer("engineConfig")))
    [] OTHER -> res

RunAlone(st, op, arg) ==
  IF op = "isUp" THEN [st |-> st, r |-> NewInv(op, arg)]
  ELSE IF op \in UpDownOps THEN Complete(verifyProviderInstalled(st, NewInv(op, arg)))
  ELSE Complete(verifyProviderIsReady(st, NewInv(op, arg)))

\* The module's state after the operations of slots order[1], order[2], ...
\* ran one after another from st.
RECURSIVE RunInOrder(_, _)
RunInOrder(st, order) ==
  IF order = <<>> THEN st
  ELSE RunInOrder(RunAlone(st, inv[Head(order)].op, inv[Head(order)].arg).st,
                  Tail(order))

Fresh == [engine |-> engine, installed |-> FALSE, up |-> FALSE, init |-> FALSE,
          calls |-> [q \in DOMAIN calls |-> 0]]

FactsOf(st) == <<st.installed, st.up, st.init>>

Ascending == [i \in 1..NProc |-> i]
Descending == [i \in 1..NProc |-> NProc + 1 - i]

\* Overlapping invocations, one per slot, have all returned.
RaceOver ==
  /\ provider \in GoodProfiles
  /\ ~Sequential
  /\ \A p \in Procs : inv[p].pc = "done"
  /\ ncalls = NProc

Rank(pc) ==
  CASE pc \in {"idle", "running"} -> 0
    [] pc \in {"isInstalled", "liveIsUp"} -> 1
    [] pc = "isUp" -> 2
    [] pc = "engineConfig" -> 3
    [] pc = "delegate" -> 4
    [] pc \in {"done", "thrown"} -> 5

Got(p, q, ans) ==
  inv[p].pc = q /\ inv'[p].answers = Append(inv[p].answers, ans)

\* In this step a caller issued the invocation now in slot p.
Called(p) == ncalls' = ncalls + 1 /\ inv'[p] # inv[p]

FactsUnchanged ==
  UNCHANGED <<isProviderInstalled, isProviderUp, engineHasBeenInit>>

NotInstalledMessage ==
  IF provider.name = "virtualbox"
  THEN "Provider \"virtualbox\" is NOT installed!"
  ELSE "Provider \"boot2docker\" is NOT installed!"

NotUpMessage ==
  IF provider.name = "virtualbox"
  THEN "Provider \"virtualbox\" is NOT up!"
  ELSE "Provider \"boot2docker\" is NOT up!"

\* C8: when isInstalled answers (no error, false), the operation that asked
\* (up, down or a gated one) fails with 'Provider "<name>" is NOT installed!';
\* when isUp answers (no error, false) to a gate, the gated operation fails
\* with 'Provider "<name>" is NOT up!'; neither makes a delegated call and
\* neither changes a cached fact, so a false fact stays false.
NegativeCheckIsProviderError ==
  [][\A p \in Procs :
       /\ Got(p, "isInstalled", No) =>
            /\ inv'[p].pc = "done"
            /\ inv'[p].result = <<NotInstalledMessage, "undefined">>
            /\ inv'[p].delegated = <<>>
            /\ FactsUnchanged
       /\ Got(p, "isUp", No) =>
            /\ inv'[p].pc = "done"
            /\ inv'[p].result = <<NotUpMessage, "undefined">>
            /\ inv'[p].delegated = <<>>
            /\ isProviderInstalled
            /\ FactsUnchanged]_vars

\* C8 witness: up() has failed with the NOT installed message and a gated
\* operation with the NOT up message, with installed cached and up not.
NegativeCheckIsProviderErrorWitness ==
  /\ isProviderInstalled /\ ~isProviderUp
  /\ \E p, q \in Procs :
       /\ inv[p].op = "up" /\ inv[p].answers = <<No>>
       /\ inv[p].result[1] = NotInstalledMessage
       /\ inv[q].op \in GatedOps /\ inv[q].answers = <<Yes, No>>
       /\ inv[q].result[1] = NotUpMessage

\* C9: a failed isInstalled or isUp check (an error or a negative answer) ends
\* the operation with an error, a query error being handed on as it is, and
\* changes no fact; and an operation issued while a fact it needs is not
\* cached queries the provider for it, skipping the facts that are cached.
FailuresNotCached ==
  [][\A p \in Procs :
       /\ \A q \in {"isInstalled", "isUp"} : \A ans \in {No, QueryFailed} :
            Got(p, q, ans) =>
              /\ inv'[p].pc = "done"
              /\ Truthy(inv'[p].result[1])
              /\ ans = QueryFailed => inv'[p].result = <<ans[1], "undefined">>
              /\ inv'[p].delegated = <<>>
              /\ FactsUnchanged
       /\ (Called(p) /\ inv'[p].op \in UpDownOps \cup GatedOps) =>
            IF ~isProviderInstalled
            THEN inv'[p].queries = <<"isInstalled">>
            ELSE IF inv'[p].op \in GatedOps /\ ~isProviderUp
                 THEN inv'[p].queries = <<"isUp">>
                 ELSE /\ "isInstalled" \notin {inv'[p].queries[i] : i \in 1..Len(inv'[p].queries)}
                      /\ "isUp" \notin {inv'[p].queries[i] : i \in 1..Len(inv'[p].queries)}]_vars

\* C9 witness: sequential calls; isUp failed once, and the retry asked isUp
\* again (its second query) without asking isInstalled again, and got the
\* query error handed on.
FailuresNotCachedWitness ==
  /\ Sequential
  /\ calls.isInstalled = 1 /\ calls.isUp = 2
  /\ isProviderInstalled /\ ~isProviderUp
  /\ inv[1].op \in GatedOps /\ inv[1].queries = <<"isUp">>
  /\ inv[1].pc = "done" /\ inv[1].result = <<"EQUERY", "undefined">>

\* C10: when engineConfig answers with an error, the gated operation ends with
\* that error, makes no delegated call, backend init is not called, and the
\* facts are unchanged with installed and up true; and a gated operation
\* issued with installed and up cached but not initialized asks engineConfig
\* and nothing else.
ConfigErrorIsRetryable ==
  [][\A p \in Procs :
       /\ Got(p, "engineConfig", QueryFailed) =>
            /\ inv'[p].pc = "done"
            /\ inv'[p].result = <<"EQUERY", "undefined">>
            /\ inv'[p].delegated = <<>>
            /\ calls'.init = calls.init
            /\ FactsUnchanged
            /\ isProviderInstalled /\ isProviderUp
       /\ (/\ Called(p) /\ inv'[p].op \in GatedOps
           /\ isProviderInstalled /\ isProviderUp /\ ~engineHasBeenInit) =>
            /\ inv'[p].queries = <<"engineConfig">>
            /\ inv'[p].pc = "engineConfig"
            /\ calls'.engineConfig = calls.engineConfig + 1
            /\ calls'.isInstalled = calls.isInstalled
            /\ calls'.isUp = calls.isUp]_vars

\* C10 witness: sequential calls; the first engineConfig fetch failed, the
\* retry has fetched it again, as its only query, and backend init never ran.
ConfigErrorIsRetryableWitness ==
  /\ Sequential
  /\ calls = [isInstalled |-> 1, isUp |-> 1, engineConfig |-> 2, init |-> 0]
  /\ isProviderInstalled /\ isProviderUp /\ ~engineHasBeenInit
  /\ inv[1].op \in GatedOps /\ inv[1].queries = <<"engineConfig">>

\* ------------------------------------------------ gate failure, pass-through

Last(s) == s[Len(s)]

\* The gate of invocation r failed: the latest provider answer it received was
\* an error or a negative answer.
GateFailed(r) == r.answers # <<>> /\ ~Positive(Last(r.answers))

\* The error the failed gate of r reports: the provider's error as it is, or
\* the provider error for the check that was answered with false.
GateError(r) ==
  IF Truthy(Last(r.answers)[1]) THEN Last(r.answers)[1]
  ELSE IF r.queries[Len(r.answers)] = "isInstalled" THEN NotInstalledMessage
  ELSE NotUpMessage

\* C11: for every operation with a readiness precondition (up, down and the
\* gated ones), an invocation whose gate failed has returned, its caller's
\* callback got exactly the gate's error and no data, and it never issued its
\* delegated provider/backend call.
GateFailureIsReported ==
  \A p \in Procs :
    (inv[p].op \in UpDownOps \cup GatedOps /\ GateFailed(inv[p])) =>
      /\ inv[p].pc = "done"
      /\ inv[p].result = <<GateError(inv[p]), "undefined">>
      /\ inv[p].delegated = <<>>
      /\ inv[p].backend = <<>>

\* C11 witness: down() has failed with the provider's isInstalled error while
\* a gated operation has failed at its third check, the configuration fetch.
GateFailureIsReportedWitness ==
  /\ inv[1].op = "down" /\ inv[1].answers = <<QueryFailed>>
  /\ inv[1].result = <<"EQUERY", "undefined">>
  /\ inv[2].op \in GatedOps /\ inv[2].answers = <<Yes, Yes, QueryFailed>>
  /\ inv[2].pc = "done" /\ inv[2].delegated = <<>>

\* C12: once an operation's gate has succeeded and its delegated function has
\* produced an outcome, result or error, the caller's callback has received
\* exactly that outcome; and a returned invocation that had delegated got
\* what the delegated function produced.
DelegatePassThrough ==
  \A p \in Procs :
    /\ inv[p].backend # <<>> =>
         /\ inv[p].pc = "done"
         /\ inv[p].delegated = DelegateFns(inv[p].op, inv[p].arg)
         /\ inv[p].result = inv[p].backend
    /\ (inv[p].pc = "done" /\ inv[p].delegated # <<>>) =>
         /\ inv[p].backend \in DelegateAnswers
         /\ inv[p].result = inv[p].backend

\* C12 witness: one delegated call has produced data and another an error,
\* and each caller has received it.
DelegatePassThroughWitness ==
  /\ inv[1].op \in GatedOps /\ inv[1].backend = <<"null", "data">>
  /\ inv[1].result = <<"null", "data">>
  /\ inv[2].op \in UpDownOps \cup GatedOps
  /\ inv[2].backend = <<"EBACKEND", "undefined">>
  /\ inv[2].result = <<"EBACKEND", "undefined">>

\* ------------------------------------------------------------ up and down

\* The installed check of an up() or down() invocation r has succeeded, from
\* the cache or by a positive answer.
InstalledVerified(r) == r.queries = <<>> \/ r.answers = <<Yes>>

\* C13 as stated: an up() or down() that has delegated has called the backend
\* engine's up, respectively down.
UpDownCallBackend ==
  \A p \in Procs :
    (inv[p].op \in UpDownOps /\ inv[p].delegated # <<>>) =>
      inv[p].delegated = <<"engine." \o inv[p].op>>

\* C13 amended: once the installed check has succeeded, up() has called the
\* provider's up and down() the provider's down, and nothing else, whether or
\* not a backend engine is selected; before that it has called nothing.
UpDownCallProvider ==
  \A p \in Procs :
    inv[p].op \in UpDownOps =>
      inv[p].delegated = IF InstalledVerified(inv[p])
                         THEN <<"provider." \o inv[p].op>>
                         ELSE <<>>

\* C13 witness: with no backend engine selected, up() has called provider.up
\* after a positive isInstalled answer and down() has called provider.down.
UpDownCallProviderWitness ==
  /\ engine = "null"
  /\ inv[1].op = "up" /\ inv[1].answers = <<Yes>>
  /\ inv[1].delegated = <<"provider.up">>
  /\ inv[2].op = "down" /\ inv[2].delegated = <<"provider.down">>

\* ------------------------------------------------------ backend selection

\* C14: backend selection is first-call-wins.  A step changes the backend
\* handle only from null, to the backend the init call names, and changes
\* nothing else of the dispatcher; once the handle is set, no step, a later
\* init naming another backend included, changes it.
FirstInitWins ==
  [][/\ engine # "null" => engine' = engine
     /\ engine' # engine =>
          /\ engine' \in EngineNames /\ engine' = requested'
          /\ FactsUnchanged /\ UNCHANGED <<inv, calls>>]_vars

\* C14 witness: the first init selected docker, the latest init call named
\* rkt, the handle is still docker and a gated operation that found docker
\* has delegated.
FirstInitWinsWitness ==
  /\ engine = "docker" /\ requested = "rkt"
  /\ \E p \in Procs :
       /\ inv[p].op \in GatedOps /\ inv[p].handle = "docker"
       /\ inv[p].delegated # <<>>

\* -------------------------------------------------------------- live isUp

\* C15: isUp() has no precondition and bypasses the cache.  The step that
\* issues it queries the provider's isUp, whatever is cached, and the step
\* that answers it hands the answer to the caller; neither reads or writes a
\* cached fact or counts as a gate query.  So a gated operation issued with
\* installed cached and up not cached still issues its own isUp query.
LiveIsUpBypassesCache ==
  [][\A p \in Procs :
       /\ (Called(p) /\ inv'[p].op = "isUp") =>
            /\ inv'[p].pc = "liveIsUp" /\ inv'[p].queries = <<"isUp">>
            /\ FactsUnchanged /\ calls' = calls
       /\ (inv[p].pc = "liveIsUp" /\ inv'[p] # inv[p]) =>
            /\ inv'[p].pc = "done"
            /\ Len(inv'[p].answers) = 1
            /\ inv'[p].result = inv'[p].answers[1]
            /\ FactsUnchanged /\ calls' = calls
       /\ (/\ Called(p) /\ inv'[p].op \in GatedOps
           /\ isProviderInstalled /\ ~isProviderUp) =>
            /\ inv'[p].pc = "isUp" /\ inv'[p].queries = <<"isUp">>
            /\ calls'.isUp = calls.isUp + 1]_vars

\* C15 witness: isUp() has returned true to its caller, up is still not
\* cached, and a gated operation whose installed check has just succeeded
\* has issued its own isUp query.
LiveIsUpBypassesCacheWitness ==
  /\ inv[2].op = "isUp" /\ inv[2].pc = "done" /\ inv[2].result = Yes
  /\ ~isProviderUp
  /\ inv[1].op \in GatedOps /\ inv[1].pc = "isUp" /\ inv[1].answers = <<Yes>>

\* ------------------------------------------------------------- no retries

\* How often invocation r has issued query q.
Times(r, q) == Cardinality({i \in DOMAIN r.queries : r.queries[i] = q})

BuildOrPull ==
  \A p \in Procs :
    inv[p].op = "build" =>
      /\ inv[p].arg \in {"true", "undefined"}
      /\ inv[p].delegated \in
           {<<>>, IF inv[p].arg = "true" THEN <<"engine.build">>
                                        ELSE <<"engine.pull">>}
      /\ (inv[p].pc = "delegate" \/ inv[p].backend # <<>>) =>
           inv[p].delegated # <<>>

\* C17 witness: two builds have passed the gate, the one whose image has the
\* build marker called engine.build, the one without called engine.pull.
BuildOrPullWitness ==
  /\ inv[1].op = "build" /\ inv[1].arg = "true"
  /\ inv[1].delegated = <<"engine.build">>
  /\ inv[2].op = "build" /\ inv[2].arg = "undefined"
  /\ inv[2].delegated = <<"engine.pull">>

\* ------------------------------------------------------------ termination

\* C18: with a backend selected beforehand and a provider and backend that
\* invoke every callback, every invocation that waits for a callback
\* eventually returns through its caller's callback; the caller's callback
\* has been invoked exactly when the invocation has returned; and a returned
\* invocation is never called back again: its slot changes only when a caller
\* issues the next invocation.
CallbackExactlyOnce ==
  /\ \A p \in Procs :
       (Pending(inv[p]) /\ engine # "null") ~> (inv[p].pc = "done")
  /\ [](\A p \in Procs : (inv[p].result # <<>>) <=> (inv[p].pc = "done"))
  /\ [][\A p \in Procs :
          (inv[p].pc = "done" /\ inv'[p] # inv[p]) => Called(p)]_vars

\* C18 witness: one invocation has returned with what its delegated call
\* produced and another with the error of its failed gate.
CallbackExactlyOnceWitness ==
  /\ inv[1].pc = "done" /\ inv[1].backend # <<>>
  /\ inv[1].result = inv[1].backend
  /\ inv[2].pc = "done" /\ GateFailed(inv[2])
  /\ inv[2].result[1] # "null"

\* ------------------------------------------------- up, down and the cache

\* C19: no step of an up() or down() invocation (its issue, its isInstalled
\* answer, its provider call returning) issues an isUp or engineConfig query,
\* initializes the backend, or changes the cached up and initialized facts,
\* and such an invocation queries nothing but isInstalled.  So up stays
\* cached over a successful down(), and a gated operation issued with all
\* three facts cached delegates at once without any query.
UpDownLeaveCache ==
  [][\A p \in Procs :
       /\ (inv'[p] # inv[p] /\ inv'[p].op \in UpDownOps) =>
            /\ inv'[p].queries \in {<<>>, <<"isInstalled">>}
            /\ UNCHANGED <<isProviderUp, engineHasBeenInit>>
            /\ calls'.isUp = calls.isUp
            /\ calls'.engineConfig = calls.engineConfig
            /\ calls'.init = calls.init
       /\ (Called(p) /\ inv'[p].op \in GatedOps /\ AllFacts) =>
            /\ inv'[p].pc = "delegate" /\ inv'[p].queries = <<>>
            /\ calls' = calls /\ FactsUnchanged]_vars

\* C19 witness: sequential calls; a gated operation has cached all three
\* facts, then down() found installed cached, called provider.down and
\* returned without error, and up and initialized are still cached.
UpDownLeaveCacheWitness ==
  /\ Sequential /\ ncalls = 2 /\ AllFacts
  /\ calls = [isInstalled |-> 1, isUp |-> 1, engineConfig |-> 1, init |-> 1]
  /\ inv[1].op = "down" /\ inv[1].queries = <<>>
  /\ inv[1].delegated = <<"provider.down">>
  /\ inv[1].pc = "done" /\ inv[1].result = <<"null", "data">>

\* ---------------------------------------------------- no backend selected

\* C20 as stated: a gated invocation issued while the backend handle was null
\* never makes a delegated backend call.
IssuedBeforeInitNeverDelegates ==
  \A p \in Procs :
    (inv[p].op \in GatedOps /\ inv[p].handle = "null") =>
      inv[p].delegated = <<>>

\* C20 amended: while the backend handle is null, initialized is false, the
\* backend was never initialized and no gated invocation has made a delegated
\* call; a step of a gated invocation taken with the handle null leaves that
\* so, and when that step is a positive engineConfig answer the invocation
\* ends in the exception of engine.init on the null handle, without its
\* caller's callback being invoked.
NoBackendNoInit ==
  /\ [](engine = "null" =>
          /\ ~engineHasBeenInit /\ calls.init = 0
          /\ \A p \in Procs :
               inv[p].op \in GatedOps =>
                 inv[p].delegated = <<>> /\ inv[p].pc # "delegate")
  /\ [][\A p \in Procs :
          (engine = "null" /\ inv'[p] # inv[p] /\ inv'[p].op \in GatedOps) =>
            /\ ~engineHasBeenInit' /\ calls'.init = calls.init
            /\ inv'[p].delegated = <<>>
            /\ Got(p, "engineConfig", ConfigOk) =>
                 /\ inv'[p].pc = "thrown" /\ inv'[p].result = <<>>
                 /\ FactsUnchanged]_vars

\* C20 witness: no backend is selected, a gated operation has got positive
\* answers to all three queries and ended in the exception; installed and up
\* are cached, initialized is not.
NoBackendNoInitWitness ==
  /\ engine = "null" /\ requested = "none"
  /\ isProviderInstalled /\ isProviderUp /\ ~engineHasBeenInit
  /\ \E p \in Procs :
       /\ inv[p].op \in GatedOps /\ inv[p].pc = "thrown"
       /\ inv[p].answers = <<Yes, Yes, ConfigOk>>
====
